---- MODULE Spec2Model ----
(***************************************************************************)
(* A model of PIFOPipelineStage (pifo_pipeline_stage.h): one stage holding *)
(* a bank of priority queues, a bank of calendar queues, a look-up table   *)
(* and a priority computer.  The stage's enq, deq and find_next_hop are    *)
(* translated from the header; the two queue disciplines it forwards to    *)
(* (priority_queue.h, calendar_queue.h) and the pipeline driver that owns  *)
(* several stages and follows next hops are modelled from their            *)
(* specification.                                                          *)
(***************************************************************************)
EXTENDS Integers, Sequences, FiniteSets, TLC

VARIABLES
  priority_queue_bank_,   \* [0..num_prio_queues-1 -> PriorityQueue]
  calendar_queue_bank_,   \* [0..num_cal_queues-1 -> CalendarQueue]
  next_hop_lut_,          \* the stage's look-up table: field value -> NextHop
  call,                   \* the last call made on the stage, with its arguments
  ret,                    \* what the last call returned
  err,                    \* the exception the last call raised, or "none"
  pre,                    \* both banks as they were before the last call
  drv                     \* the driver: its mode and, per mode, what it keeps

vars == <<priority_queue_bank_, calendar_queue_bank_, next_hop_lut_,
         call, ret, err, pre, drv>>

----------------------------------------------------------------------------
(* Bounds of the model *)

\* ticks passed to enq and deq range over 0..MaxTick
MaxTick == 1
\* priorities computed for packets range over 0..MaxPrio
MaxPrio == 2
\* a value of the look-up field that the look-up table does not declare
UndeclaredClass == 2
\* the driver stops enqueuing when the stage holds MaxPkts elements
MaxPkts == 2
\* release ticks of the calendar scenario range over 0..MaxRel
MaxRel == 8
\* the calendar scenario enqueues at most MaxItems items
MaxItems == 3

----------------------------------------------------------------------------
(* Construction-time configuration of the stage *)

num_prio_queues == 2
num_cal_queues == 2

PRIORITY_QUEUE == "PRIORITY_QUEUE"
CALENDAR_QUEUE == "CALENDAR_QUEUE"
QueueType == {PRIORITY_QUEUE, CALENDAR_QUEUE}

Operation == {"ENQ", "DEQ", "TRANSMIT"}

PIFOArguments(stage_id, q_type, queue_id) ==
  [stage_id |-> stage_id, q_type |-> q_type, queue_id |-> queue_id]

NextHop(op, pifo_arguments) == [op |-> op, pifo_arguments |-> pifo_arguments]

\* the field the look-up table reads
look_up_field_name_ == "class"

\* the table of the end-to-end scenario: 0 -> TRANSMIT, 1 -> ENQ at (1, CALENDAR, 0)
look_up_table_ ==
  (0 :> NextHop("TRANSMIT", <<>>)) @@
  (1 :> NextHop("ENQ", <<PIFOArguments(1, CALENDAR_QUEUE, 0)>>))

\* a packet is a container of named integer fields
Classes == DOMAIN look_up_table_ \cup {UndeclaredClass}

PIFOPacket == [class : Classes, prio : 0..MaxRel]

\* the packets the driver of the stage offers
Packets == {p \in PIFOPacket : p.prio <= MaxPrio}

\* the stage's priority computer: reads the packet's prio field
prio_computer_(packet) == packet.prio

Ticks == 0..MaxTick

\* queue ids passed by callers: every valid index and one past the larger bank
QueueIds ==
  0..(IF num_prio_queues > num_cal_queues THEN num_prio_queues ELSE num_cal_queues)

----------------------------------------------------------------------------
(* Return values *)

Void == [kind |-> "void"]
Absent == [kind |-> "absent"]
Thrown == [kind |-> "thrown"]
Some(packet) == [kind |-> "packet", val |-> packet]
Hop(next_hop) == [kind |-> "next_hop", val |-> next_hop]

----------------------------------------------------------------------------
(* Sequence helpers *)

RemoveAt(s, k) == SubSeq(s, 1, k - 1) \o SubSeq(s, k + 1, Len(s))

InsertAt(s, n, e) == SubSeq(s, 1, n) \o <<e>> \o SubSeq(s, n + 1, Len(s))

Max(a, b) == IF a >= b THEN a ELSE b

----------------------------------------------------------------------------
(* PushableElement: a packet with the priority and the tick it was pushed with *)

PushableElement(element, prio, tick) ==
  [element_ |-> element, prio_ |-> prio, tick_ |-> tick]

----------------------------------------------------------------------------
(* PriorityQueue: elements kept in serving order, lower priority value      *)
(* first, then earlier tick, then earlier insertion.                        *)

\* a is served strictly before b on priority and tick alone
Before(a, b) ==
  \/ a.prio_ < b.prio_
  \/ (a.prio_ = b.prio_ /\ a.tick_ < b.tick_)

EmptyPriorityQueue == <<>>

\* push: the element goes behind every element it is not strictly before
PriorityQueue_enq(q, element, prio, tick) ==
  LET e == PushableElement(element, prio, tick)
      n == Cardinality({i \in 1..Len(q) : ~Before(e, q[i])})
  IN  InsertAt(q, n, e)

\* pop: the head of the serving order, or absent when the queue is empty
PriorityQueue_deq(q, tick) ==
  IF q = <<>>
    THEN [q |-> q, ret |-> Absent]
    ELSE [q |-> Tail(q), ret |-> Some(Head(q).element_)]

----------------------------------------------------------------------------
(* CalendarQueue: a cursor and a sparse set of buckets, one per release     *)
(* tick, each a non-empty FIFO of elements.                                 *)

EmptyCalendarQueue == [cursor |-> 0, buckets |-> {}]

BucketTicks(c) == {b.tick : b \in c.buckets}

BucketAt(c, t) == CHOOSE b \in c.buckets : b.tick = t

\* push: prio is the release tick; a release tick before the current tick is stale
CalendarQueue_enq(c, element, prio, tick) ==
  IF prio < tick
    THEN [q |-> c, err |-> "stale_schedule"]
    ELSE
      LET e == PushableElement(element, prio, tick)
          bs == IF prio \in BucketTicks(c)
                  THEN (c.buckets \ {BucketAt(c, prio)})
                         \cup {[tick |-> prio, items |-> Append(BucketAt(c, prio).items, e)]}
                  ELSE c.buckets \cup {[tick |-> prio, items |-> <<e>>]}
      IN  [q |-> [c EXCEPT !.buckets = bs], err |-> "none"]

\* pop that sets the cursor to the tick of the call, even an earlier one
CalendarQueue_deq_rewind(c, tick) ==
  LET due == {t \in BucketTicks(c) : t <= tick}
  IN  IF due = {}
        THEN [q |-> [c EXCEPT !.cursor = tick], ret |-> Absent]
        ELSE
          LET t == CHOOSE x \in due : \A y \in due : x <= y
              b == BucketAt(c, t)
              rest == c.buckets \ {b}
              bs == IF Len(b.items) = 1
                      THEN rest
                      ELSE rest \cup {[tick |-> t, items |-> Tail(b.items)]}
          IN  [q |-> [cursor |-> tick, buckets |-> bs],
               ret |-> Some(Head(b.items).element_)]

\* pop that keeps the bucket it has just emptied
CalendarQueue_deq_keep_bucket(c, tick) ==
  LET cur == Max(c.cursor, tick)
      due == {t \in BucketTicks(c) : t <= cur /\ BucketAt(c, t).items # <<>>}
  IN  IF due = {}
        THEN [q |-> [c EXCEPT !.cursor = cur], ret |-> Absent]
        ELSE
          LET t == CHOOSE x \in due : \A y \in due : x <= y
              b == BucketAt(c, t)
          IN  [q |-> [cursor |-> cur,
                      buckets |-> (c.buckets \ {b})
                                    \cup {[tick |-> t, items |-> Tail(b.items)]}],
               ret |-> Some(Head(b.items).element_)]

\* pop: advance the cursor to max(cursor, tick), then serve the head of the
\* earliest bucket whose tick is at or before the cursor
CalendarQueue_deq(c, tick) ==
  LET cur == Max(c.cursor, tick)
      due == {t \in BucketTicks(c) : t <= cur}
  IN  IF due = {}
        THEN [q |-> [c EXCEPT !.cursor = cur], ret |-> Absent]
        ELSE
          LET t == CHOOSE x \in due : \A y \in due : x <= y
              b == BucketAt(c, t)
              rest == c.buckets \ {b}
              bs == IF Len(b.items) = 1
                      THEN rest
                      ELSE rest \cup {[tick |-> t, items |-> Tail(b.items)]}
          IN  [q |-> [cursor |-> cur, buckets |-> bs],
               ret |-> Some(Head(b.items).element_)]

----------------------------------------------------------------------------
(* PIFOPipelineStage *)

\* std::vector::at: the index is checked against the bank's size
InRange(bank, queue_id) == queue_id \in DOMAIN bank

Banks == [priority_queue_bank_ |-> priority_queue_bank_,
          calendar_queue_bank_ |-> calendar_queue_bank_]

\* the body of enq: pick the bank by q_type, bounds-check queue_id with at(),
\* and push (packet, prio, tick) into that queue
push(q_type, queue_id, packet, prio, tick) ==
  /\ UNCHANGED next_hop_lut_
  /\ IF q_type = PRIORITY_QUEUE
       THEN IF InRange(priority_queue_bank_, queue_id)
              THEN /\ priority_queue_bank_' =
                        [priority_queue_bank_ EXCEPT
                           ![queue_id] = PriorityQueue_enq(@, packet, prio, tick)]
                   /\ UNCHANGED calendar_queue_bank_
                   /\ ret' = Void
                   /\ err' = "none"
              ELSE /\ UNCHANGED <<priority_queue_bank_, calendar_queue_bank_>>
                   /\ ret' = Thrown
                   /\ err' = "out_of_range"
       ELSE IF InRange(calendar_queue_bank_, queue_id)
              THEN LET r == CalendarQueue_enq(calendar_queue_bank_[queue_id],
                                              packet, prio, tick)
                   IN  /\ calendar_queue_bank_' =
                            [calendar_queue_bank_ EXCEPT ![queue_id] = r.q]
                       /\ UNCHANGED priority_queue_bank_
                       /\ ret' = (IF r.err = "none" THEN Void ELSE Thrown)
                       /\ err' = r.err
              ELSE /\ UNCHANGED <<priority_queue_bank_, calendar_queue_bank_>>
                   /\ ret' = Thrown
                   /\ err' = "out_of_range"

OtherBank(q_type) ==
  IF q_type = PRIORITY_QUEUE THEN CALENDAR_QUEUE ELSE PRIORITY_QUEUE

\* enq with the priority and the tick passed to the queue in each other's place
enq_swapped(q_type, queue_id, packet, tick) ==
  push(q_type, queue_id, packet, tick, prio_computer_(packet))

\* enq that passes the priority where the queue expects the tick
enq_prio_as_tick(q_type, queue_id, packet, tick) ==
  push(q_type, queue_id, packet, prio_computer_(packet), prio_computer_(packet))

\* enq with the test on q_type inverted: each bank receives the other's packets
enq_wrong_bank(q_type, queue_id, packet, tick) ==
  push(OtherBank(q_type), queue_id, packet, prio_computer_(packet), tick)

\* enq that ignores queue_id and pushes into the first queue of the bank
enq_first_queue(q_type, queue_id, packet, tick) ==
  push(q_type, 0, packet, prio_computer_(packet), tick)

\* PIFOPipelineStage::enq: compute the packet's priority, then push
enq(q_type, queue_id, packet, tick) ==
  push(q_type, queue_id, packet, prio_computer_(packet), tick)

\* the body of deq: pick the bank by q_type, bounds-check queue_id with at(),
\* and return what that queue's deq returns
pop(q_type, queue_id, tick) ==
  /\ UNCHANGED next_hop_lut_
  /\ IF q_type = PRIORITY_QUEUE
       THEN IF InRange(priority_queue_bank_, queue_id)
              THEN LET r == PriorityQueue_deq(priority_queue_bank_[queue_id], tick)
                   IN  /\ priority_queue_bank_' =
                            [priority_queue_bank_ EXCEPT ![queue_id] = r.q]
                       /\ UNCHANGED calendar_queue_bank_
                       /\ ret' = r.ret
                       /\ err' = "none"
              ELSE /\ UNCHANGED <<priority_queue_bank_, calendar_queue_bank_>>
                   /\ ret' = Thrown
                   /\ err' = "out_of_range"
       ELSE IF InRange(calendar_queue_bank_, queue_id)
              THEN LET r == CalendarQueue_deq(calendar_queue_bank_[queue_id], tick)
                   IN  /\ calendar_queue_bank_' =
                            [calendar_queue_bank_ EXCEPT ![queue_id] = r.q]
                       /\ UNCHANGED priority_queue_bank_
                       /\ ret' = r.ret
                       /\ err' = "none"
              ELSE /\ UNCHANGED <<priority_queue_bank_, calendar_queue_bank_>>
                   /\ ret' = Thrown
                   /\ err' = "out_of_range"

\* deq with the test on q_type inverted: each bank serves the other's calls
deq_wrong_bank(q_type, queue_id, tick) == pop(OtherBank(q_type), queue_id, tick)

\* deq that hands the queue the tick after the caller's
deq_late_tick(q_type, queue_id, tick) == pop(q_type, queue_id, tick + 1)

\* deq that answers a queue_id outside the bank as it would an empty queue
deq_unchecked(q_type, queue_id, tick) ==
  IF InRange(IF q_type = PRIORITY_QUEUE THEN priority_queue_bank_
                                        ELSE calendar_queue_bank_, queue_id)
    THEN pop(q_type, queue_id, tick)
    ELSE /\ UNCHANGED <<priority_queue_bank_, calendar_queue_bank_, next_hop_lut_>>
         /\ ret' = Absent
         /\ err' = "none"

\* deq that takes the addressed queue out of the bank by value and serves
\* the copy: the caller gets the packet, the bank keeps it
deq_on_copy(q_type, queue_id, tick) ==
  /\ UNCHANGED <<priority_queue_bank_, calendar_queue_bank_, next_hop_lut_>>
  /\ IF InRange(IF q_type = PRIORITY_QUEUE THEN priority_queue_bank_
                                           ELSE calendar_queue_bank_, queue_id)
       THEN /\ ret' = (IF q_type = PRIORITY_QUEUE
                         THEN PriorityQueue_deq(priority_queue_bank_[queue_id], tick).ret
                         ELSE CalendarQueue_deq(calendar_queue_bank_[queue_id], tick).ret)
            /\ err' = "none"
       ELSE /\ ret' = Thrown
            /\ err' = "out_of_range"

\* PIFOPipelineStage::deq
deq(q_type, queue_id, tick) == pop(q_type, queue_id, tick)

\* lookup that answers a miss with a default-constructed NextHop
lookup_default(packet) ==
  /\ UNCHANGED <<priority_queue_bank_, calendar_queue_bank_, next_hop_lut_>>
  /\ err' = "none"
  /\ ret' = IF packet[look_up_field_name_] \in DOMAIN next_hop_lut_
              THEN Hop(next_hop_lut_[packet[look_up_field_name_]])
              ELSE Hop(NextHop("ENQ", <<>>))

\* lookup through std::map::operator[]: a miss inserts a default-constructed
\* NextHop under the key and returns it
lookup_inserting(packet) ==
  /\ UNCHANGED <<priority_queue_bank_, calendar_queue_bank_>>
  /\ err' = "none"
  /\ IF packet[look_up_field_name_] \in DOMAIN next_hop_lut_
       THEN /\ ret' = Hop(next_hop_lut_[packet[look_up_field_name_]])
            /\ UNCHANGED next_hop_lut_
       ELSE /\ ret' = Hop(NextHop("ENQ", <<>>))
            /\ next_hop_lut_' =
                 (packet[look_up_field_name_] :> NextHop("ENQ", <<>>)) @@ next_hop_lut_

\* LookUpTable::lookup: std::map::at on the packet's look-up field; the table
\* is a const member and lookup a const method
lookup(packet) ==
  /\ UNCHANGED <<priority_queue_bank_, calendar_queue_bank_, next_hop_lut_>>
  /\ IF packet[look_up_field_name_] \in DOMAIN next_hop_lut_
       THEN /\ ret' = Hop(next_hop_lut_[packet[look_up_field_name_]])
            /\ err' = "none"
       ELSE /\ ret' = Thrown
            /\ err' = "out_of_range"

\* PIFOPipelineStage::find_next_hop
find_next_hop(packet) == lookup(packet)

----------------------------------------------------------------------------
(* The stage under an arbitrary driver *)

\* number of elements a calendar queue holds
CalSize(c) ==
  LET RECURSIVE Sum(_)
      Sum(bs) == IF bs = {} THEN 0
                 ELSE LET b == CHOOSE x \in bs : TRUE
                      IN  Len(b.items) + Sum(bs \ {b})
  IN  Sum(c.buckets)

\* number of elements the stage holds
Held ==
  LET RECURSIVE SumP(_)
      SumP(n) == IF n = 0 THEN 0
                 ELSE Len(priority_queue_bank_[n - 1]) + SumP(n - 1)
      RECURSIVE SumC(_)
      SumC(n) == IF n = 0 THEN 0
                 ELSE CalSize(calendar_queue_bank_[n - 1]) + SumC(n - 1)
  IN  SumP(num_prio_queues) + SumC(num_cal_queues)

\* the stage after construction: both banks hold empty queues, the look-up
\* table is the one handed to the constructor
ConstructedWith(lut) ==
  /\ priority_queue_bank_ = [i \in 0..(num_prio_queues - 1) |-> EmptyPriorityQueue]
  /\ calendar_queue_bank_ = [i \in 0..(num_cal_queues - 1) |-> EmptyCalendarQueue]
  /\ next_hop_lut_ = lut
  /\ call = [op |-> "none"]
  /\ ret = Void
  /\ err = "none"
  /\ pre = Banks

Constructed == ConstructedWith(look_up_table_)

Init ==
  /\ Constructed
  /\ drv = [mode |-> "free"]

\* the driver enqueues a packet, unless the stage already holds MaxPkts elements
Enq(q_types, queue_ids, packets) ==
  /\ drv.mode = "free"
  /\ Held < MaxPkts
  /\ \E q_type \in q_types, queue_id \in queue_ids, packet \in packets, tick \in Ticks :
       /\ enq(q_type, queue_id, packet, tick)
       /\ call' = [op |-> "enq", q_type |-> q_type, queue_id |-> queue_id,
                   packet |-> packet, tick |-> tick]
  /\ pre' = Banks
  /\ UNCHANGED drv

\* the driver dequeues
Deq(q_types, queue_ids) ==
  /\ drv.mode = "free"
  /\ \E q_type \in q_types, queue_id \in queue_ids, tick \in Ticks :
       /\ deq(q_type, queue_id, tick)
       /\ call' = [op |-> "deq", q_type |-> q_type, queue_id |-> queue_id,
                   tick |-> tick]
  /\ pre' = Banks
  /\ UNCHANGED drv

\* the driver asks for a packet's next hop
FindNextHop ==
  /\ drv.mode = "free"
  /\ \E packet \in Packets :
       /\ find_next_hop(packet)
       /\ call' = [op |-> "find_next_hop", packet |-> packet]
  /\ pre' = Banks
  /\ UNCHANGED drv

\* the whole stage: both banks, every queue id (valid or not), packets of
\* class 0 and priority 0, told apart by the tick they are enqueued at
StagePackets == {p \in Packets : p.class = 0 /\ p.prio = 0}

StageEnq == Enq(QueueType, QueueIds, StagePackets)
StageDeq == Deq(QueueType, QueueIds)

Next == StageEnq \/ StageDeq \/ FindNextHop

Spec == Init /\ [][Next]_vars

\* one priority queue of the stage, every packet
PrioEnq == Enq({PRIORITY_QUEUE}, {0}, Packets)
PrioDeq == Deq({PRIORITY_QUEUE}, {0})

NextPrio == PrioEnq \/ PrioDeq \/ FindNextHop

SpecPrio == Init /\ [][NextPrio]_vars

\* one calendar queue of the stage, every packet
CalEnq == Enq({CALENDAR_QUEUE}, {0}, Packets)
CalDeq == Deq({CALENDAR_QUEUE}, {0})

NextCal == CalEnq \/ CalDeq \/ FindNextHop

SpecCal == Init /\ [][NextCal]_vars

----------------------------------------------------------------------------
(* The calendar-ordering scenario: items with pairwise distinct release     *)
(* ticks are enqueued into calendar queue 0 at tick 0, in any order, and    *)
(* then deq is called once at each of the ticks 0, 1, 2, ..., MaxRel.       *)

ScenarioPacket(release) == [class |-> 0, prio |-> release]

InitScenario ==
  /\ Constructed
  /\ \E rel \in SUBSET (0..MaxRel) :
       /\ Cardinality(rel) <= MaxItems
       /\ drv = [mode |-> "scenario", rel |-> rel, todo |-> rel, t |-> 0]

ScenarioEnq ==
  /\ drv.mode = "scenario"
  /\ \E release \in drv.todo :
       /\ enq(CALENDAR_QUEUE, 0, ScenarioPacket(release), 0)
       /\ call' = [op |-> "enq", q_type |-> CALENDAR_QUEUE, queue_id |-> 0,
                   packet |-> ScenarioPacket(release), tick |-> 0]
       /\ drv' = [drv EXCEPT !.todo = @ \ {release}]
  /\ pre' = Banks

ScenarioDeq ==
  /\ drv.mode = "scenario"
  /\ drv.todo = {}
  /\ drv.t <= MaxRel
  /\ deq(CALENDAR_QUEUE, 0, drv.t)
  /\ call' = [op |-> "deq", q_type |-> CALENDAR_QUEUE, queue_id |-> 0,
              tick |-> drv.t]
  /\ drv' = [drv EXCEPT !.t = @ + 1]
  /\ pre' = Banks

NextScenario == ScenarioEnq \/ ScenarioDeq

SpecScenario == InitScenario /\ [][NextScenario]_vars

----------------------------------------------------------------------------
(* The draining scenario: a driver with a clock enqueues at most MaxItems   *)
(* packets into calendar queue 0, each at the tick the clock shows, keeps   *)
(* dequeuing from that queue at the tick the clock shows, and lets the      *)
(* clock run up to MaxPrio, the latest release tick a packet can ask for.   *)

LivePackets == {p \in Packets : p.class = 0}

InitLive ==
  /\ Constructed
  /\ drv = [mode |-> "live", t |-> 0, left |-> MaxItems]

LiveEnq ==
  /\ drv.mode = "live"
  /\ drv.left > 0
  /\ \E packet \in LivePackets :
       /\ enq(CALENDAR_QUEUE, 0, packet, drv.t)
       /\ call' = [op |-> "enq", q_type |-> CALENDAR_QUEUE, queue_id |-> 0,
                   packet |-> packet, tick |-> drv.t]
  /\ drv' = [drv EXCEPT !.left = @ - 1]
  /\ pre' = Banks

LiveDeq ==
  /\ drv.mode = "live"
  /\ deq(CALENDAR_QUEUE, 0, drv.t)
  /\ call' = [op |-> "deq", q_type |-> CALENDAR_QUEUE, queue_id |-> 0,
              tick |-> drv.t]
  /\ pre' = Banks
  /\ UNCHANGED drv

\* the clock advances; the stage is not called
LiveTick ==
  /\ drv.mode = "live"
  /\ drv.t < MaxPrio
  /\ drv' = [drv EXCEPT !.t = @ + 1]
  /\ UNCHANGED <<priority_queue_bank_, calendar_queue_bank_, next_hop_lut_,
                 call, ret, err, pre>>

NextLive == LiveEnq \/ LiveDeq \/ LiveTick

\* the driver keeps dequeuing and its clock keeps advancing
SpecLive ==
  InitLive /\ [][NextLive]_vars /\ WF_vars(LiveDeq) /\ WF_vars(LiveTick)

----------------------------------------------------------------------------
(* The pipeline: a driver that owns several stages, enqueues packets into   *)
(* stage 0, dequeues from any stage, asks the stage a packet left for the   *)
(* packet's next hop and carries the hop out: for ENQ it enqueues the       *)
(* packet, at the tick of the dequeue, into every PIFOArguments entry of    *)
(* the hop, in order.  An exception leaving a stage call ends the run.      *)
(* The state variables of the stage hold the stage the driver is calling;   *)
(* drv.stages_ holds every stage of the pipeline.                           *)

StageIds == {0, 1}

\* stage 0 sends class 1 to two queues of stage 1; stage 1 transmits
fan_out_table_ ==
  (0 :> NextHop("TRANSMIT", <<>>)) @@
  (1 :> NextHop("ENQ", <<PIFOArguments(1, CALENDAR_QUEUE, 0),
                         PIFOArguments(1, PRIORITY_QUEUE, 1)>>))

transmit_table_ ==
  (0 :> NextHop("TRANSMIT", <<>>)) @@ (1 :> NextHop("TRANSMIT", <<>>))

\* the members of the stage the state variables hold
ThisStage == [priority_queue_bank_ |-> priority_queue_bank_,
              calendar_queue_bank_ |-> calendar_queue_bank_,
              next_hop_lut_ |-> next_hop_lut_]

\* every stage shares the one object that a call writes
written_shared(stages, stage_id, stage) == [s \in DOMAIN stages |-> stage]

\* a call on stage stage_id writes the members of that stage object only
written(stages, stage_id, stage) == [stages EXCEPT ![stage_id] = stage]

InitPipe ==
  /\ ConstructedWith(fan_out_table_)
  /\ drv = [mode |-> "pipe",
            stages_ |-> [s \in StageIds |->
                           [ThisStage EXCEPT !.next_hop_lut_ =
                              IF s = 0 THEN fan_out_table_ ELSE transmit_table_]],
            before |-> [s \in StageIds |->
                           [ThisStage EXCEPT !.next_hop_lut_ =
                              IF s = 0 THEN fan_out_table_ ELSE transmit_table_]],
            at |-> 0, phase |-> "idle", pkt |-> [class |-> 0, prio |-> 0],
            tick |-> 0, hop |-> NextHop("TRANSMIT", <<>>), todo |-> <<>>]

\* number of elements stage record st holds
HeldBy(st) ==
  LET RECURSIVE SumP(_)
      SumP(n) == IF n = 0 THEN 0
                 ELSE Len(st.priority_queue_bank_[n - 1]) + SumP(n - 1)
      RECURSIVE SumC(_)
      SumC(n) == IF n = 0 THEN 0
                 ELSE CalSize(st.calendar_queue_bank_[n - 1]) + SumC(n - 1)
  IN  SumP(num_prio_queues) + SumC(num_cal_queues)

\* number of elements the pipeline holds
HeldByAll ==
  LET RECURSIVE Sum(_)
      Sum(ss) == IF ss = {} THEN 0
                 ELSE LET s == CHOOSE x \in ss : TRUE
                      IN  HeldBy(drv.stages_[s]) + Sum(ss \ {s})
  IN  Sum(StageIds)

\* the driver turns to stage stage_id: stages_.at(stage_id)
PipeSelect ==
  /\ drv.mode = "pipe"
  /\ drv.phase \in {"idle", "routed", "fan"}
  /\ \E stage_id \in StageIds :
       /\ stage_id # drv.at
       /\ drv.phase = "fan" => stage_id = Head(drv.todo).stage_id
       /\ priority_queue_bank_' = drv.stages_[stage_id].priority_queue_bank_
       /\ calendar_queue_bank_' = drv.stages_[stage_id].calendar_queue_bank_
       /\ next_hop_lut_' = drv.stages_[stage_id].next_hop_lut_
       /\ drv' = [drv EXCEPT !.at = stage_id, !.before = drv.stages_]
       /\ pre' = [priority_queue_bank_ |-> drv.stages_[stage_id].priority_queue_bank_,
                  calendar_queue_bank_ |-> drv.stages_[stage_id].calendar_queue_bank_]
  /\ call' = [op |-> "none"]
  /\ ret' = Void
  /\ err' = "none"

\* the packets that enter the pipeline: of every class, released at tick 0
\* or at tick MaxTick
PipePackets == {p \in Packets : p.prio = 0 \/ p.prio = MaxTick}

\* where packets enter the pipeline
Entry == PIFOArguments(0, PRIORITY_QUEUE, 0)

\* the queues the driver serves: the entry and every destination of a hop
PipeQueues ==
  {Entry} \cup
  UNION {{fan_out_table_[c].pifo_arguments[k] :
            k \in DOMAIN fan_out_table_[c].pifo_arguments} :
         c \in DOMAIN fan_out_table_}

\* what the driver keeps of a routing once it is over
Forgotten == [pkt |-> [class |-> 0, prio |-> 0], tick |-> 0,
              hop |-> NextHop("TRANSMIT", <<>>)]

\* a packet enters the pipeline
PipeEnq ==
  /\ drv.mode = "pipe"
  /\ drv.phase \in {"idle", "routed"}
  /\ drv.at = Entry.stage_id
  /\ HeldByAll < MaxPkts
  /\ \E packet \in PipePackets, tick \in Ticks :
       /\ enq(Entry.q_type, Entry.queue_id, packet, tick)
       /\ call' = [op |-> "enq", q_type |-> Entry.q_type,
                   queue_id |-> Entry.queue_id, packet |-> packet, tick |-> tick]
  /\ pre' = Banks
  /\ drv' = [drv EXCEPT !.stages_ = written(drv.stages_, drv.at, ThisStage'),
                        !.before = drv.stages_,
                        !.phase = IF err' = "none" THEN "idle" ELSE "aborted",
                        !.pkt = Forgotten.pkt, !.tick = Forgotten.tick,
                        !.hop = Forgotten.hop]

\* the driver dequeues from a queue of the stage it has turned to
PipeDeq ==
  /\ drv.mode = "pipe"
  /\ drv.phase \in {"idle", "routed"}
  /\ \E q \in PipeQueues, tick \in Ticks :
       /\ q.stage_id = drv.at
       /\ deq(q.q_type, q.queue_id, tick)
       /\ call' = [op |-> "deq", q_type |-> q.q_type, queue_id |-> q.queue_id,
                   tick |-> tick]
       /\ drv' = [drv EXCEPT !.stages_ = written(drv.stages_, drv.at, ThisStage'),
                             !.before = drv.stages_,
                             !.phase = IF err' # "none" THEN "aborted"
                                       ELSE IF ret'.kind = "packet" THEN "route"
                                       ELSE "idle",
                             !.pkt = IF ret'.kind = "packet" THEN ret'.val
                                                               ELSE Forgotten.pkt,
                             !.tick = IF ret'.kind = "packet" THEN tick
                                                                ELSE Forgotten.tick,
                             !.hop = Forgotten.hop]
  /\ pre' = Banks

\* the driver asks the stage the packet left for the packet's next hop
PipeRoute ==
  /\ drv.mode = "pipe"
  /\ drv.phase = "route"
  /\ find_next_hop(drv.pkt)
  /\ call' = [op |-> "find_next_hop", packet |-> drv.pkt]
  /\ pre' = Banks
  /\ drv' = [drv EXCEPT !.stages_ = written(drv.stages_, drv.at, ThisStage'),
                        !.before = drv.stages_,
                        !.phase = IF err' # "none" THEN "aborted"
                                  ELSE IF ret'.val.op # "ENQ" THEN "idle"
                                  ELSE IF ret'.val.pifo_arguments = <<>> THEN "routed"
                                  ELSE "fan",
                        !.hop = IF err' = "none" /\ ret'.val.op = "ENQ"
                                  THEN ret'.val ELSE Forgotten.hop,
                        !.pkt = IF err' = "none" /\ ret'.val.op = "ENQ"
                                  THEN @ ELSE Forgotten.pkt,
                        !.tick = IF err' = "none" /\ ret'.val.op = "ENQ"
                                   THEN @ ELSE Forgotten.tick,
                        !.todo = IF err' = "none" /\ ret'.val.op = "ENQ"
                                   THEN ret'.val.pifo_arguments ELSE <<>>]

\* the driver enqueues the packet into the next destination of the hop
PipeFanOut ==
  /\ drv.mode = "pipe"
  /\ drv.phase = "fan"
  /\ drv.at = Head(drv.todo).stage_id
  /\ enq(Head(drv.todo).q_type, Head(drv.todo).queue_id, drv.pkt, drv.tick)
  /\ call' = [op |-> "enq", q_type |-> Head(drv.todo).q_type,
              queue_id |-> Head(drv.todo).queue_id,
              packet |-> drv.pkt, tick |-> drv.tick]
  /\ pre' = Banks
  /\ drv' = [drv EXCEPT !.stages_ = written(drv.stages_, drv.at, ThisStage'),
                        !.before = drv.stages_,
                        !.phase = IF err' # "none" THEN "aborted"
                                  ELSE IF Tail(drv.todo) = <<>> THEN "routed"
                                  ELSE "fan",
                        !.todo = Tail(drv.todo)]

NextPipe == PipeSelect \/ PipeEnq \/ PipeDeq \/ PipeRoute \/ PipeFanOut

SpecPipe == InitPipe /\ [][NextPipe]_vars

----------------------------------------------------------------------------
(* Vocabulary of the properties *)

\* the elements of a calendar queue, earliest bucket first, FIFO within a bucket
CalSeq(c) ==
  LET RECURSIVE Cat(_)
      Cat(ts) == IF ts = {} THEN <<>>
                 ELSE LET t == CHOOSE x \in ts : \A y \in ts : x <= y
                      IN  BucketAt(c, t).items \o Cat(ts \ {t})
  IN  Cat(BucketTicks(c))

\* the last call was op, on a queue of bank q_type that exists
OnQueue(op, q_type) ==
  /\ call.op = op
  /\ call.q_type = q_type
  /\ call.queue_id \in DOMAIN (IF q_type = PRIORITY_QUEUE
                                 THEN pre.priority_queue_bank_
                                 ELSE pre.calendar_queue_bank_)

\* the last call was op with a queue_id outside the bank it addressed
OutOfBank(op) ==
  /\ call.op = op
  /\ call.queue_id \notin DOMAIN (IF call.q_type = PRIORITY_QUEUE
                                    THEN pre.priority_queue_bank_
                                    ELSE pre.calendar_queue_bank_)

\* the addressed priority queue before and after the last call
PreP == pre.priority_queue_bank_[call.queue_id]
PostP == priority_queue_bank_[call.queue_id]

\* the addressed calendar queue before and after the last call
PreC == pre.calendar_queue_bank_[call.queue_id]
PostC == calendar_queue_bank_[call.queue_id]

\* the priority value of a queued element: the priority of its packet
PrioOf(e) == prio_computer_(e.element_)

----------------------------------------------------------------------------
(* C1 *)

\* a deq on a non-empty priority queue returns a packet of that queue whose
\* priority value is the lowest of all elements in the queue
C1_LowestFirst ==
  (OnQueue("deq", PRIORITY_QUEUE) /\ PreP # <<>>) =>
     /\ ret.kind = "packet"
     /\ \E k \in 1..Len(PreP) :
          /\ PreP[k].element_ = ret.val
          /\ PostP = RemoveAt(PreP, k)
     /\ \A j \in 1..Len(PreP) : prio_computer_(ret.val) <= PrioOf(PreP[j])

\* two dequeues in a row on one priority queue return non-decreasing priorities
C1_NonDecreasing ==
  [][(/\ call.op = "deq"
      /\ call'.op = "deq"
      /\ call.q_type = PRIORITY_QUEUE
      /\ call'.q_type = PRIORITY_QUEUE
      /\ call'.queue_id = call.queue_id
      /\ ret.kind = "packet"
      /\ ret'.kind = "packet")
       => prio_computer_(ret.val) <= prio_computer_(ret'.val)]_vars

\* C1: every dequeue on a non-empty priority queue returns an element of the
\* lowest priority value in that queue, so that repeated dequeues return
\* non-decreasing priorities
C1_PriorityOrdering == []C1_LowestFirst /\ C1_NonDecreasing

\* a dequeue that served the lower of two different priorities, the higher
\* one having been enqueued at the earlier tick
C1_Witness ==
  /\ OnQueue("deq", PRIORITY_QUEUE)
  /\ ret.kind = "packet"
  /\ Len(PostP) = 1
  /\ prio_computer_(ret.val) < PrioOf(PostP[1])
  /\ \E k \in 1..Len(PreP) :
       /\ PreP[k].element_ = ret.val
       /\ PreP[k].tick_ > PostP[1].tick_

----------------------------------------------------------------------------
(* C2 *)

\* the element a priority-queue deq removed is, among the elements of its
\* priority, the one of the earliest tick, and the first of those in the queue
C2_DeqEarliest ==
  (OnQueue("deq", PRIORITY_QUEUE) /\ PreP # <<>>) =>
     \E k \in 1..Len(PreP) :
       /\ PreP[k].element_ = ret.val
       /\ PostP = RemoveAt(PreP, k)
       /\ \A j \in 1..Len(PreP) :
            (j # k /\ PrioOf(PreP[j]) = PrioOf(PreP[k])) =>
               \/ PreP[k].tick_ < PreP[j].tick_
               \/ (PreP[k].tick_ = PreP[j].tick_ /\ k < j)

\* an accepted priority-queue enq stores the packet with the tick of the call,
\* behind every element of the same priority and tick already in the queue
C2_EnqBehindEquals ==
  (OnQueue("enq", PRIORITY_QUEUE) /\ err = "none") =>
     \E k \in 1..Len(PostP) :
       /\ PostP[k] = PushableElement(call.packet, prio_computer_(call.packet), call.tick)
       /\ PreP = RemoveAt(PostP, k)
       /\ \A j \in 1..Len(PostP) :
            (PrioOf(PostP[j]) = PrioOf(PostP[k]) /\ PostP[j].tick_ = PostP[k].tick_)
               => j <= k

\* C2: among elements of equal priority a dequeue returns the one enqueued at
\* the earliest tick, and among those of equal priority and tick the one
\* inserted first
C2_FifoTieBreak == C2_DeqEarliest /\ C2_EnqBehindEquals

\* a dequeue that chose between two different packets of one priority,
\* enqueued at ticks t1 < t2, and returned the one enqueued at t1
C2_Witness ==
  /\ OnQueue("deq", PRIORITY_QUEUE)
  /\ ret.kind = "packet"
  /\ Len(PreP) = 2
  /\ PrioOf(PreP[1]) = PrioOf(PreP[2])
  /\ PreP[1].tick_ < PreP[2].tick_
  /\ PreP[1].element_ # PreP[2].element_
  /\ ret.val = PreP[1].element_
  /\ PostP = <<PreP[2]>>

----------------------------------------------------------------------------
(* C3 *)

\* where a calendar-queue deq at call.tick leaves the cursor of the queue
Due == Max(PreC.cursor, call.tick)

\* C3: a calendar-queue dequeue at tick t never returns an item whose release
\* tick is greater than max(cursor, t); an item it returns has the smallest
\* release tick of all items in the queue; and it returns absent when no item
\* has a release tick at or before max(cursor, t)
C3_CalendarRelease ==
  OnQueue("deq", CALENDAR_QUEUE) =>
     /\ err = "none"
     /\ ret.kind \in {"packet", "absent"}
     /\ ret.kind = "packet" =>
          \E k \in 1..Len(CalSeq(PreC)) :
            /\ CalSeq(PreC)[k].element_ = ret.val
            /\ CalSeq(PostC) = RemoveAt(CalSeq(PreC), k)
            /\ PrioOf(CalSeq(PreC)[k]) <= Due
            /\ \A j \in 1..Len(CalSeq(PreC)) :
                 PrioOf(CalSeq(PreC)[k]) <= PrioOf(CalSeq(PreC)[j])
     /\ (\A j \in 1..Len(CalSeq(PreC)) : PrioOf(CalSeq(PreC)[j]) > Due) =>
          /\ ret = Absent
          /\ CalSeq(PostC) = CalSeq(PreC)

\* a dequeue past the cursor that returned the item due exactly at its tick
\* and held back an item due later
C3_Witness ==
  /\ OnQueue("deq", CALENDAR_QUEUE)
  /\ ret.kind = "packet"
  /\ PreC.cursor < call.tick
  /\ prio_computer_(ret.val) = call.tick
  /\ Len(CalSeq(PostC)) = 1
  /\ PrioOf(CalSeq(PostC)[1]) > call.tick

----------------------------------------------------------------------------
(* C4 *)

\* C4: with items of pairwise distinct release ticks enqueued at tick 0 and deq
\* called once at each tick 0, 1, 2, ..., the deq at a release tick returns the
\* item of that release tick and every other deq returns absent, so that after
\* the last tick every item has been returned
C4_CalendarOrdering ==
  /\ (drv.mode = "scenario" /\ call.op = "enq") => err = "none"
  /\ (drv.mode = "scenario" /\ call.op = "deq") =>
        /\ err = "none"
        /\ IF call.tick \in drv.rel
             THEN ret = Some(ScenarioPacket(call.tick))
             ELSE ret = Absent
  /\ (drv.mode = "scenario" /\ drv.todo = {} /\ drv.t > MaxRel) =>
        calendar_queue_bank_[0].buckets = {}

\* the run of the example: release ticks {5, 2, 8}, just after the deq at tick 8
C4_Witness ==
  /\ drv.mode = "scenario"
  /\ drv.rel = {5, 2, 8}
  /\ call.op = "deq"
  /\ call.tick = 8
  /\ ret = Some(ScenarioPacket(8))
  /\ calendar_queue_bank_[0].buckets = {}

----------------------------------------------------------------------------
(* C5 *)

\* C5: enq or deq with a queue_id outside the addressed bank fails with
\* out_of_range and leaves every queue of both banks as it was
C5_BoundsChecking ==
  (OutOfBank("enq") \/ OutOfBank("deq")) =>
     /\ err = "out_of_range"
     /\ ret = Thrown
     /\ Banks = pre

\* a deq past the end of the calendar bank while the stage holds elements in
\* both banks
C5_Witness ==
  /\ OutOfBank("deq")
  /\ call.q_type = CALENDAR_QUEUE
  /\ err = "out_of_range"
  /\ \E i \in DOMAIN priority_queue_bank_ : priority_queue_bank_[i] # <<>>
  /\ \E i \in DOMAIN calendar_queue_bank_ : calendar_queue_bank_[i].buckets # {}

----------------------------------------------------------------------------
(* C6 *)

\* the last call was a deq on a queue that exists and was empty
DeqOnEmpty ==
  \/ OnQueue("deq", PRIORITY_QUEUE) /\ PreP = <<>>
  \/ OnQueue("deq", CALENDAR_QUEUE) /\ PreC.buckets = {}

\* C6: a dequeue from an empty queue, priority or calendar, at any tick and
\* however often repeated, returns absent, raises nothing and leaves the queue
\* empty
C6_IdempotentAbsence ==
  DeqOnEmpty =>
     /\ ret = Absent
     /\ err = "none"
     /\ call.q_type = PRIORITY_QUEUE => PostP = <<>>
     /\ call.q_type = CALENDAR_QUEUE => PostC.buckets = {}

\* a deq on an empty priority queue while the calendar queue of the same index
\* holds an item that is due at the tick of the call
C6_Witness ==
  /\ OnQueue("deq", PRIORITY_QUEUE)
  /\ PreP = <<>>
  /\ ret = Absent
  /\ call.queue_id \in DOMAIN calendar_queue_bank_
  /\ \E b \in PostC.buckets : b.tick <= call.tick

----------------------------------------------------------------------------
(* C7 *)

\* the value of the look-up field of the packet of the last call
LookupKey == call.packet[look_up_field_name_]

\* C7: find_next_hop returns exactly the NextHop stored under the packet's
\* look-up field value when that value is a key of the table, and otherwise
\* fails with the exception of std::map::at and returns no NextHop at all
C7_LookupCompleteness ==
  call.op = "find_next_hop" =>
     IF LookupKey \in DOMAIN look_up_table_
       THEN /\ err = "none"
            /\ ret.kind = "next_hop"
            /\ ret.val = look_up_table_[LookupKey]
       ELSE /\ err = "out_of_range"
            /\ ret = Thrown

\* a look-up that missed, right after one that could have hit: the packet's
\* class is not a key of the table and the call failed
C7_Witness ==
  /\ call.op = "find_next_hop"
  /\ LookupKey \notin DOMAIN look_up_table_
  /\ err = "out_of_range"
  /\ ret.kind # "next_hop"

----------------------------------------------------------------------------
(* C8 *)

\* C8: an enq into a calendar queue of a packet whose release tick (its
\* computed priority) is earlier than the tick of the call fails with
\* stale_schedule and leaves the calendar queue as it was
C8_StaleSchedule ==
  (OnQueue("enq", CALENDAR_QUEUE) /\ prio_computer_(call.packet) < call.tick) =>
     /\ err = "stale_schedule"
     /\ ret = Thrown
     /\ Banks = pre

\* a stale enq refused by a calendar queue that already holds an item
C8_Witness ==
  /\ OnQueue("enq", CALENDAR_QUEUE)
  /\ prio_computer_(call.packet) < call.tick
  /\ err = "stale_schedule"
  /\ PostC.buckets # {}

----------------------------------------------------------------------------
(* C9 *)

\* this step is a second accepted enq with the tick of the accepted enq before it
SecondEnqAtTick ==
  /\ call.op = "enq"
  /\ err = "none"
  /\ call'.op = "enq"
  /\ call'.tick = call.tick

\* this step is a second deq with the tick of the accepted deq before it
SecondDeqAtTick ==
  /\ call.op = "deq"
  /\ err = "none"
  /\ call'.op = "deq"
  /\ call'.tick = call.tick

\* the number of elements in each queue of both banks, by queue type and index
Sizes(banks) ==
  [q_type \in QueueType |->
     IF q_type = PRIORITY_QUEUE
       THEN [i \in DOMAIN banks.priority_queue_bank_ |->
               Len(banks.priority_queue_bank_[i])]
       ELSE [i \in DOMAIN banks.calendar_queue_bank_ |->
               Len(CalSeq(banks.calendar_queue_bank_[i]))]]

----------------------------------------------------------------------------
(* C10 *)

\* C10: an enq or deq addressed to index i of one bank leaves every queue of
\* the other bank, and every queue of the same bank at another index, as it was
C10_BankIsolation ==
  (call.op \in {"enq", "deq"}) =>
     /\ call.q_type = PRIORITY_QUEUE =>
          /\ calendar_queue_bank_ = pre.calendar_queue_bank_
          /\ \A j \in DOMAIN priority_queue_bank_ :
               j # call.queue_id =>
                 priority_queue_bank_[j] = pre.priority_queue_bank_[j]
     /\ call.q_type = CALENDAR_QUEUE =>
          /\ priority_queue_bank_ = pre.priority_queue_bank_
          /\ \A j \in DOMAIN calendar_queue_bank_ :
               j # call.queue_id =>
                 calendar_queue_bank_[j] = pre.calendar_queue_bank_[j]

\* an accepted enq into priority queue i while calendar queue i holds an item
C10_Witness ==
  /\ OnQueue("enq", PRIORITY_QUEUE)
  /\ err = "none"
  /\ PostP # PreP
  /\ call.queue_id \in DOMAIN calendar_queue_bank_
  /\ PostC.buckets # {}
  /\ PostC = PreC

----------------------------------------------------------------------------
(* C11 *)

\* the queue that q names holds an element carrying packet with its priority
HoldsPacket(q, packet) ==
  LET st == drv.stages_[q.stage_id]
      s  == IF q.q_type = PRIORITY_QUEUE
              THEN st.priority_queue_bank_[q.queue_id]
              ELSE CalSeq(st.calendar_queue_bank_[q.queue_id])
  IN  \E k \in 1..Len(s) :
        /\ s[k].element_ = packet
        /\ s[k].prio_ = prio_computer_(packet)

----------------------------------------------------------------------------
(* C17 *)

\* C17: a call on one stage leaves every other stage as it was: the banks of
\* a stage differ from what they were before the last step only if that step
\* was an enq or a deq on that very stage, so a packet reaches a stage only
\* through a call the driver makes on that stage
C17_StageIsolation ==
  (drv.mode = "pipe") =>
     /\ drv.stages_[drv.at] = ThisStage
     /\ \A s \in StageIds :
          (drv.stages_[s] # drv.before[s]) =>
             /\ s = drv.at
             /\ call.op \in {"enq", "deq"}

\* the driver, following a hop, has enqueued into stage 1 while stage 0 held
\* an element: stage 1 changed, stage 0 did not
C17_Witness ==
  /\ drv.mode = "pipe"
  /\ drv.at = 1
  /\ call.op = "enq"
  /\ err = "none"
  /\ drv.stages_[1] # drv.before[1]
  /\ drv.stages_[0] = drv.before[0]
  /\ HeldBy(drv.stages_[0]) > 0

----------------------------------------------------------------------------
(* C13 *)

\* C13: the cursor of a calendar queue never decreases: no call on the stage
\* leaves a cursor below where it was, and a deq at a tick earlier than the
\* cursor a previous deq left is rejected or leaves the cursor where it was
C13_CursorMonotone ==
  /\ \A i \in DOMAIN calendar_queue_bank_ :
       calendar_queue_bank_[i].cursor >= pre.calendar_queue_bank_[i].cursor
  /\ (OnQueue("deq", CALENDAR_QUEUE) /\ call.tick < PreC.cursor) =>
       \/ err # "none"
       \/ PostC.cursor = PreC.cursor

\* a deq at a tick before the cursor, on a queue whose cursor an earlier deq
\* had advanced: it was served and the cursor stayed
C13_Witness ==
  /\ OnQueue("deq", CALENDAR_QUEUE)
  /\ err = "none"
  /\ call.tick < PreC.cursor
  /\ PostC.cursor = PreC.cursor
  /\ PreC.cursor > 0

----------------------------------------------------------------------------
(* C14 *)

\* the element an enq of the last call's packet at the last call's tick stores
Enqueued ==
  PushableElement(call.packet, prio_computer_(call.packet), call.tick)

\* s is t with one element taken out, or t itself
OneLessOrSame(s, t) == s = t \/ \E k \in 1..Len(t) : s = RemoveAt(t, k)

\* an accepted enq adds one element to the addressed queue: the packet with
\* its computed priority and the tick of the call
C14_AddsOne ==
  /\ (OnQueue("enq", PRIORITY_QUEUE) /\ err = "none") =>
       \E k \in 1..Len(PostP) :
         /\ PostP[k] = Enqueued
         /\ PreP = RemoveAt(PostP, k)
  /\ (OnQueue("enq", CALENDAR_QUEUE) /\ err = "none") =>
       \E k \in 1..Len(CalSeq(PostC)) :
         /\ CalSeq(PostC)[k] = Enqueued
         /\ CalSeq(PreC) = RemoveAt(CalSeq(PostC), k)

\* an enq changes no queue but the one it addresses
C14_OnlyAddressed ==
  (call.op = "enq") =>
     /\ \A j \in DOMAIN priority_queue_bank_ :
          (call.q_type = PRIORITY_QUEUE /\ j = call.queue_id)
            \/ priority_queue_bank_[j] = pre.priority_queue_bank_[j]
     /\ \A j \in DOMAIN calendar_queue_bank_ :
          (call.q_type = CALENDAR_QUEUE /\ j = call.queue_id)
            \/ calendar_queue_bank_[j] = pre.calendar_queue_bank_[j]

\* the elements of a queue are stored unaltered from call to call, each with
\* the priority of its packet: a call adds one element, removes one, or
\* leaves the queue's elements as they were
C14_StoredUnaltered ==
  /\ \A j \in DOMAIN priority_queue_bank_ :
       /\ \/ OneLessOrSame(priority_queue_bank_[j], pre.priority_queue_bank_[j])
          \/ OneLessOrSame(pre.priority_queue_bank_[j], priority_queue_bank_[j])
       /\ \A k \in 1..Len(priority_queue_bank_[j]) :
            priority_queue_bank_[j][k].prio_ = PrioOf(priority_queue_bank_[j][k])
  /\ \A j \in DOMAIN calendar_queue_bank_ :
       /\ \/ OneLessOrSame(CalSeq(calendar_queue_bank_[j]),
                           CalSeq(pre.calendar_queue_bank_[j]))
          \/ OneLessOrSame(CalSeq(pre.calendar_queue_bank_[j]),
                           CalSeq(calendar_queue_bank_[j]))
       /\ \A k \in 1..Len(CalSeq(calendar_queue_bank_[j])) :
            CalSeq(calendar_queue_bank_[j])[k].prio_
              = PrioOf(CalSeq(calendar_queue_bank_[j])[k])

\* C14: a successful enq(q_type, queue_id, packet, tick) adds exactly one
\* element to exactly the queue at index queue_id of the bank q_type selects,
\* carrying the packet, the priority the stage's priority function gives the
\* packet, and the tick; the priority stored with an element does not change
\* while the element stays in the queue
C14_EnqEffect == C14_AddsOne /\ C14_OnlyAddressed /\ C14_StoredUnaltered

\* an accepted enq at a tick that differs from the packet's priority, into a
\* priority queue that already held an element, which is still there
C14_Witness ==
  /\ OnQueue("enq", PRIORITY_QUEUE)
  /\ err = "none"
  /\ Len(PreP) = 1
  /\ Len(PostP) = 2
  /\ call.tick # prio_computer_(call.packet)
  /\ \E k \in 1..2 : PostP[k] = PreP[1]

----------------------------------------------------------------------------
(* C15 *)

\* a deq that returns a packet takes one element carrying that packet, as it
\* was enqueued, out of the addressed queue and leaves the queue's other
\* elements in place
C15_RemovesReturned ==
  /\ (OnQueue("deq", PRIORITY_QUEUE) /\ ret.kind = "packet") =>
       \E k \in 1..Len(PreP) :
         /\ PreP[k].element_ = ret.val
         /\ PostP = RemoveAt(PreP, k)
  /\ (OnQueue("deq", CALENDAR_QUEUE) /\ ret.kind = "packet") =>
       \E k \in 1..Len(CalSeq(PreC)) :
         /\ CalSeq(PreC)[k].element_ = ret.val
         /\ CalSeq(PostC) = RemoveAt(CalSeq(PreC), k)

\* a deq that returns no packet leaves the elements of the addressed queue,
\* and their order, as they were
C15_AbsentKeeps ==
  /\ (OnQueue("deq", PRIORITY_QUEUE) /\ ret.kind # "packet") => PostP = PreP
  /\ (OnQueue("deq", CALENDAR_QUEUE) /\ ret.kind # "packet") =>
       /\ PostC.buckets = PreC.buckets
       /\ CalSeq(PostC) = CalSeq(PreC)
  /\ (OutOfBank("deq")) => Banks = pre

\* a deq changes no queue but the one it addresses, nor the look-up table
C15_OnlyAddressed ==
  (call.op = "deq") =>
     /\ \A j \in DOMAIN priority_queue_bank_ :
          (call.q_type = PRIORITY_QUEUE /\ j = call.queue_id)
            \/ priority_queue_bank_[j] = pre.priority_queue_bank_[j]
     /\ \A j \in DOMAIN calendar_queue_bank_ :
          (call.q_type = CALENDAR_QUEUE /\ j = call.queue_id)
            \/ calendar_queue_bank_[j] = pre.calendar_queue_bank_[j]
     /\ next_hop_lut_ = look_up_table_

----------------------------------------------------------------------------
(* C16 *)

\* C16: find_next_hop is read-only: it leaves every queue of both banks as it
\* was, and the look-up table is, in every reachable state, the table the
\* stage was constructed with
C16_ReadOnlyLookup ==
  /\ (call.op = "find_next_hop") => Banks = pre
  /\ next_hop_lut_ = look_up_table_

\* a find_next_hop that missed, on a stage holding elements in both banks
C16_Witness ==
  /\ call.op = "find_next_hop"
  /\ err = "out_of_range"
  /\ \E i \in DOMAIN priority_queue_bank_ : priority_queue_bank_[i] # <<>>
  /\ \E i \in DOMAIN calendar_queue_bank_ : calendar_queue_bank_[i].buckets # {}

----------------------------------------------------------------------------
(* C18 *)

\* the elements of calendar queue c whose release tick is t, in stored order
ItemsAt(c, t) == IF t \in BucketTicks(c) THEN BucketAt(c, t).items ELSE <<>>

\* an accepted calendar enq puts its element behind every element of the
\* same release tick and leaves the elements of every other release tick
C18_EnqAtBack ==
  (OnQueue("enq", CALENDAR_QUEUE) /\ err = "none") =>
     \A t \in 0..MaxRel :
       ItemsAt(PostC, t) = IF t = prio_computer_(call.packet)
                             THEN Append(ItemsAt(PreC, t), Enqueued)
                             ELSE ItemsAt(PreC, t)

\* a calendar deq that returns a packet returns the front element of one
\* release tick, leaves the elements behind it in their order, and leaves the
\* elements of every other release tick
C18_DeqFromFront ==
  (OnQueue("deq", CALENDAR_QUEUE) /\ ret.kind = "packet") =>
     \E t \in BucketTicks(PreC) :
       /\ ret.val = Head(ItemsAt(PreC, t)).element_
       /\ ItemsAt(PostC, t) = Tail(ItemsAt(PreC, t))
       /\ \A u \in 0..MaxRel : u # t => ItemsAt(PostC, u) = ItemsAt(PreC, u)

\* C18: the items of one calendar queue that share a release tick are
\* returned in the order they were enqueued, whatever enqueues and dequeues
\* of other items come in between: an enqueue goes to the back of the items
\* of its release tick, a dequeue takes from their front, and no call
\* reorders them
C18_BucketFifo == C18_EnqAtBack /\ C18_DeqFromFront

\* a deq that chose between two different packets of one release tick,
\* enqueued at different ticks, and returned the one enqueued first
C18_Witness ==
  /\ OnQueue("deq", CALENDAR_QUEUE)
  /\ ret.kind = "packet"
  /\ \E t \in BucketTicks(PreC) :
       /\ Len(ItemsAt(PreC, t)) = 2
       /\ ItemsAt(PreC, t)[1].element_ # ItemsAt(PreC, t)[2].element_
       /\ ItemsAt(PreC, t)[1].tick_ < ItemsAt(PreC, t)[2].tick_
       /\ ret.val = ItemsAt(PreC, t)[1].element_
       /\ ItemsAt(PostC, t) = <<ItemsAt(PreC, t)[2]>>

----------------------------------------------------------------------------
(* C19 *)

\* C19: no calendar queue of the stage holds an empty bucket: a bucket that
\* exists holds at least one item, so a queue has no more buckets than items
C19_NoEmptyBucket ==
  \A i \in DOMAIN calendar_queue_bank_ :
    /\ \A b \in calendar_queue_bank_[i].buckets : b.items # <<>>
    /\ Cardinality(calendar_queue_bank_[i].buckets)
         <= CalSize(calendar_queue_bank_[i])

\* a deq that took the only item of one bucket, from a queue holding a
\* second bucket: the emptied bucket is gone and the other one remains
C19_Witness ==
  /\ OnQueue("deq", CALENDAR_QUEUE)
  /\ ret.kind = "packet"
  /\ Cardinality(PreC.buckets) = 2
  /\ Cardinality(PostC.buckets) = 1
  /\ PostC.buckets \subseteq PreC.buckets

----------------------------------------------------------------------------
(* C20 *)

\* calendar queue 0 holds an element carrying packet p
Waiting(p) ==
  \E k \in 1..Len(CalSeq(calendar_queue_bank_[0])) :
    CalSeq(calendar_queue_bank_[0])[k].element_ = p

\* the last call was a deq on calendar queue 0 that returned packet p
Returned(p) ==
  /\ OnQueue("deq", CALENDAR_QUEUE)
  /\ call.queue_id = 0
  /\ ret = Some(p)

\* C20: under a driver that keeps dequeuing from a calendar queue at
\* non-decreasing ticks that reach every release tick and that enqueues only
\* finitely many packets, every packet the queue has accepted is eventually
\* returned by a deq, and the queue is empty again and again
C20_EventuallyReturned ==
  /\ \A p \in LivePackets : Waiting(p) ~> Returned(p)
  /\ []<>(calendar_queue_bank_[0].buckets = {})

\* a deq returned a packet that had to wait for its release tick, after the
\* driver had used up its enqueues, leaving an element behind in the queue
C20_Witness ==
  /\ drv.mode = "live"
  /\ drv.left = 0
  /\ OnQueue("deq", CALENDAR_QUEUE)
  /\ ret.kind = "packet"
  /\ \E k \in 1..Len(CalSeq(PreC)) :
       /\ CalSeq(PreC)[k].element_ = ret.val
       /\ CalSeq(PreC)[k].tick_ < CalSeq(PreC)[k].prio_
  /\ PostC.buckets # {}

====
